---- MODULE Spec2Model ----
(***************************************************************************)
(* Model of src/src/tmux.ts: the TmuxCommandQueue that serialises every     *)
(* tmux invocation, executeTmux and its failure classification, the key     *)
(* translator, and the command tracker (executeCommand, checkCommandStatus, *)
(* cleanupOldCommands) working on the activeCommands map.                   *)
(*                                                                         *)
(* JavaScript runs one task at a time; a step of the model is the code that *)
(* runs between two suspension points.  When an exec call returns, the      *)
(* drain loop resumes first (it settles the command and goes on to the next *)
(* one), and the continuation of the caller that awaited the command runs   *)
(* right after it, before any other task: the variable settled holds the    *)
(* settled promise whose continuation has not run yet.                      *)
(*                                                                         *)
(* Strings are sequences of one-character strings.                         *)
(***************************************************************************)
EXTENDS Integers, Sequences, FiniteSets, TLC

\* ------------------------------------------------------------------ bounds
NumCallers == 3      \* logical callers that may have an operation in flight
MaxStarts == 1       \* calls of executeCommand in one behaviour of Spec
MaxPolls == 2        \* calls of checkCommandStatus in one behaviour of Spec
MaxSweeps == 1       \* calls of cleanupOldCommands in one behaviour of Spec
MaxFailures == 2     \* exec calls that fail in one behaviour of Spec
MaxCallsQ == 3       \* calls of executeTmux in one behaviour of SpecQ
MaxCallsE == 2       \* calls of executeTmux in one behaviour of SpecE
MaxNow == 1100       \* the clock of Spec stops here
MaxNowQ == 40        \* the clock of SpecQ stops here
FineStep == 5        \* clock step of SpecQ
MaxCallsL == 4       \* calls of executeTmux in one behaviour of SpecL
MaxRaws == 1         \* calls of sendRawKeys in one behaviour of SpecK
MaxKeyLen == 3       \* length of the texts of SpecK that are no names of keys
MaxQueries == 2      \* calls of the read-only queries in one behaviour of SpecR
MaxStartsS == 2      \* calls of executeCommand in one behaviour of SpecS
MaxPollsS == 1       \* calls of checkCommandStatus in one behaviour of SpecS
MaxFailuresS == 1    \* exec calls that fail in one behaviour of SpecS
MaxNowS == 100       \* the clock of SpecS stops here

Callers == 1..NumCallers

\* ------------------------------------------------------- program constants
minInterval == 10
dwellTime == 500
msPerMinute == 60000

FailedPrefix ==
    <<"F", "a", "i", "l", "e", "d", " ", "t", "o", " ", "e", "x", "e", "c", "u", "t", "e", " ", "t", "m", "u", "x", " ", "c", "o", "m", "m", "a", "n", "d", ":", " ">>
UnavailablePrefix ==
    <<"T", "m", "u", "x", " ", "s", "e", "r", "v", "e", "r", " ", "n", "o", "t", " ", "a", "v", "a", "i", "l", "a", "b", "l", "e", ":", " ">>
UnavailableTag ==
    <<"T", "m", "u", "x", " ", "s", "e", "r", "v", "e", "r", " ", "n", "o", "t", " ", "a", "v", "a", "i", "l", "a", "b", "l", "e">>
NoServerRunning ==
    <<"n", "o", " ", "s", "e", "r", "v", "e", "r", " ", "r", "u", "n", "n", "i", "n", "g">>
FailedToConnect ==
    <<"f", "a", "i", "l", "e", "d", " ", "t", "o", " ", "c", "o", "n", "n", "e", "c", "t", " ", "t", "o", " ", "s", "e", "r", "v", "e", "r">>
ConnectionRefused ==
    <<"c", "o", "n", "n", "e", "c", "t", "i", "o", "n", " ", "r", "e", "f", "u", "s", "e", "d">>
Placeholder ==
    <<"T", "m", "u", "x", " ", "s", "e", "r", "v", "e", "r", " ", "i", "s", " ", "n", "o", "t", " ", "a", "v", "a", "i", "l", "a", "b", "l", "e", ".", " ", "C", "a", "n", "n", "o", "t", " ", "c", "a", "p", "t", "u", "r", "e", " ", "p", "a", "n", "e", " ", "c", "o", "n", "t", "e", "n", "t", ".">>

\* ------------------------------------------- inputs: what the invoker says
\* Failure messages of the Process Invoker (exec's error.message).
MsgNoServer ==
    <<"n", "o", " ", "s", "e", "r", "v", "e", "r", " ", "r", "u", "n", "n", "i", "n", "g", " ", "o", "n", " ", "/", "t", "m", "p">>
MsgRefused ==
    <<"e", "r", "r", "o", "r", ":", " ", "c", "o", "n", "n", "e", "c", "t", "i", "o", "n", " ", "r", "e", "f", "u", "s", "e", "d">>
MsgConnect ==
    <<"f", "a", "i", "l", "e", "d", " ", "t", "o", " ", "c", "o", "n", "n", "e", "c", "t", " ", "t", "o", " ", "s", "e", "r", "v", "e", "r">>
MsgCapital ==
    <<"C", "o", "n", "n", "e", "c", "t", "i", "o", "n", " ", "R", "e", "f", "u", "s", "e", "d">>
MsgNoPane ==
    <<"c", "a", "n", "'", "t", " ", "f", "i", "n", "d", " ", "p", "a", "n", "e">>
MsgPartial ==
    <<"n", "o", " ", "s", "e", "r", "v", "e", "r">>
\* a message that holds the words of the thrown error and no sign of a missing
\* server, as the message of exec does when the command line holds them
MsgTagged ==
    <<"'">> \o UnavailableTag \o <<"'">>

\* what a topology query prints
QueryOutput == <<"$", "0", ":", "m", "\n">>

\* what the pane may show when it is captured: a prompt, a command that is
\* running, and the prompt that follows its output
PanePrompt == <<"$", " ">>
PaneRunning == <<"$", " ", "l", "\n">>
PaneDone == <<"$", " ", "l", "\n", "$", " ">>
PaneTexts == {PanePrompt, PaneRunning, PaneDone}

\* the outcomes of an exec call: what it prints, or the message of its error
Success(out) == [ok |-> TRUE, msg |-> <<>>, stdout |-> out]
Failure(m) == [ok |-> FALSE, msg |-> m, stdout |-> <<>>]
Successes == {Success(out) : out \in PaneTexts \cup {QueryOutput, <<>>}}
\* the outcomes of Spec and of SpecQ
Outcomes == Successes \cup {Failure(MsgNoServer), Failure(MsgNoPane)}
OutcomesQ == Successes \cup {Failure(MsgNoPane)}
\* the outcomes of SpecE: every kind of failure message
OutcomesE == Successes \cup {Failure(m) : m \in {MsgNoServer, MsgRefused, MsgConnect,
                                                   MsgCapital, MsgNoPane, MsgPartial}}

\* the arguments of executeCommand and of cleanupOldCommands
PaneId == "%0"
StartTexts == {<<"l">>, <<"\n">>}
\* the texts and the outcomes of SpecS
StartTextsS == {<<"l", "s">>, <<"l", "\r">>}
OutcomesS == {Success(PanePrompt), Success(<<>>), Failure(MsgNoPane)}
\* maxAgeMinutes is a number of minutes that need not be whole: num / den
SweepAges == {[num |-> 0, den |-> 1], [num |-> dwellTime + 1, den |-> msPerMinute],
              [num |-> 60, den |-> 1]}

\* ---------------------------------------------------------------- strings
\* String.prototype.includes
Contains(s, p) ==
    \E i \in 0..(Len(s) - Len(p)) : SubSeq(s, i + 1, i + Len(p)) = p

\* String.prototype.startsWith
StartsWith(s, p) == Len(s) >= Len(p) /\ SubSeq(s, 1, Len(p)) = p

\* the characters \s matches and trim() removes
IsSpace(ch) == ch \in {" ", "\n", "\t", "\r"}

RECURSIVE TrimEnd(_)
TrimEnd(s) ==
    IF s # <<>> /\ IsSpace(s[Len(s)]) THEN TrimEnd(SubSeq(s, 1, Len(s) - 1)) ELSE s

RECURSIVE TrimStart(_)
TrimStart(s) ==
    IF s # <<>> /\ IsSpace(s[1]) THEN TrimStart(Tail(s)) ELSE s

\* String.prototype.trim
Trim(s) == TrimStart(TrimEnd(s))

VARIABLES
    now,                \* Date.now()
    queue,              \* commandQueue.queue
    isProcessing,       \* commandQueue.isProcessing
    lastExecutionTime,  \* commandQueue.lastExecutionTime
    loops,              \* the activations of processQueue that are suspended in its loop
    settled,            \* settled promises whose continuation has not run yet
    pc,                 \* where each caller is suspended
    frame,              \* the locals of each caller's operation
    ret,                \* what the last operation of each caller returned or threw, once it has
    calls,              \* how often each operation was called, and how often exec failed
    nextSeq,            \* QueuedCommand ids handed out so far (uuidv4)
    submitted,          \* history: ids in the order of queue.push
    log,                \* history: what each command submitted is, by its id
    invoked,            \* history: the ids of the exec calls, in the order they started
    cur,                \* history: the times of the exec call that started last
    okEnd,              \* history: when the last exec call that succeeded returned
    lastEnd,            \* history: when the last exec call returned
    resolved,           \* history: the resolve and reject calls
    thrown,             \* history: the errors executeTmux threw, with their cause
    activeCommands,     \* the keys of the activeCommands map
    obj,                \* the CommandExecution objects, by id
    nextId,             \* command ids handed out so far (uuidv4)
    baselineRaw         \* history: what the pane showed at the baseline capture of each id

qvars == <<queue, isProcessing, lastExecutionTime, loops, invoked, cur, okEnd, lastEnd>>
vars == <<now, queue, isProcessing, lastExecutionTime, loops, settled, pc, frame, ret,
          calls, nextSeq, submitted, log, invoked, cur, okEnd, lastEnd, resolved, thrown,
          activeCommands, obj, nextId, baselineRaw>>

\* ----------------------------------------------------------- TmuxCommandQueue
\* the queue object together with its suspended loops and its history
Q == [queue |-> queue, isProcessing |-> isProcessing,
      lastExecutionTime |-> lastExecutionTime, loops |-> loops,
      invoked |-> invoked, cur |-> cur, okEnd |-> okEnd, lastEnd |-> lastEnd]

SetQ(q) ==
    /\ queue' = q.queue
    /\ isProcessing' = q.isProcessing
    /\ lastExecutionTime' = q.lastExecutionTime
    /\ loops' = q.loops
    /\ invoked' = q.invoked
    /\ cur' = q.cur
    /\ okEnd' = q.okEnd
    /\ lastEnd' = q.lastEnd

\* mutant: the loop takes the command submitted last (pop for shift)
DequeueLast(qu) == [cmd |-> qu[Len(qu)], rest |-> SubSeq(qu, 1, Len(qu) - 1)]

\* mutant: the loop reads the head of the queue and leaves it there
DequeuePeek(qu) == [cmd |-> Head(qu), rest |-> qu]

\* this.queue.shift()
Dequeue(qu) == [cmd |-> Head(qu), rest |-> Tail(qu)]

\* mutant: the loop waits the whole interval before every command
SpacingDelayAlways(t, last) == minInterval

\* the delay of the setTimeout of processQueue; 0 when there is no setTimeout
SpacingDelay(t, last) ==
    IF t - last < minInterval THEN minInterval - (t - last) ELSE 0

\* the times of no exec call.  The times of an exec call: since is the time from
\* the return of the last successful exec call to the moment the loop took the
\* command, delay the delay of its setTimeout, wait the time from that moment to
\* the start of the exec call, took its duration (-1 while it runs), gap the
\* time from the return of the exec call before to its start and prevTook the
\* duration of the exec call before (both -1 when there is none)
NoTimes == [id |-> 0, since |-> 0, delay |-> 0, wait |-> 0, took |-> -1, ok |-> FALSE,
            gap |-> -1, prevTook |-> -1, prevOk |-> FALSE]

\* exec(`tmux ${command.command}`) is called for the command of loop l at time t
StartExec(q, l, t) ==
    [q EXCEPT !.loops = (@ \ {l}) \cup {[l EXCEPT !.phase = "exec", !.start = t]},
              !.invoked = Append(@, l.cmd.id),
              !.cur = [id |-> l.cmd.id, since |-> l.since, delay |-> l.delay,
                       wait |-> t - l.at, took |-> -1, ok |-> FALSE,
                       gap |-> IF q.invoked = <<>> THEN -1 ELSE t - q.lastEnd,
                       prevTook |-> IF q.invoked = <<>> THEN -1 ELSE q.cur.took,
                       prevOk |-> q.cur.ok]]

\* the while loop of processQueue from its test to the next await, at time t
RunLoop(q, t) ==
    IF Len(q.queue) > 0
    THEN LET d == Dequeue(q.queue)
             delay == SpacingDelay(t, q.lastExecutionTime)
             l == [cmd |-> d.cmd, phase |-> "timer", at |-> t, delay |-> delay,
                   since |-> t - q.okEnd, start |-> 0]
             q1 == [q EXCEPT !.queue = d.rest, !.loops = @ \cup {l}]
         IN  IF delay > 0 THEN q1 ELSE StartExec(q1, l, t)
    ELSE [q EXCEPT !.isProcessing = FALSE]

\* mutant: processQueue without the test of isProcessing
ProcessQueueUnguarded(q, t) ==
    IF Len(q.queue) = 0
    THEN q
    ELSE RunLoop([q EXCEPT !.isProcessing = TRUE], t)

\* processQueue(), called at time t, up to its first await
ProcessQueue(q, t) ==
    IF q.isProcessing \/ Len(q.queue) = 0
    THEN q
    ELSE RunLoop([q EXCEPT !.isProcessing = TRUE], t)

\* enqueue(tmuxCommand), called at time t, up to the return of its promise
Enqueue(q, cmd, t) ==
    ProcessQueue([q EXCEPT !.queue = Append(@, cmd)], t)

\* the setTimeout of a suspended loop fires
TimerFires ==
    /\ settled = <<>>
    /\ \E l \in loops :
        /\ l.phase = "timer"
        /\ now >= l.at + l.delay
        /\ SetQ(StartExec(Q, l, now))
    /\ UNCHANGED <<now, settled, pc, frame, ret, calls, nextSeq, submitted, log, resolved,
                   thrown, activeCommands, obj, nextId, baselineRaw>>

\* mutant: the catch is outside the while loop, so a failure ends the loop
AfterExecEndsOnFailure(q, l, o, t) ==
    LET q1 == [q EXCEPT !.loops = @ \ {l},
                        !.lastExecutionTime = IF o.ok THEN t ELSE @,
                        !.cur = IF @.id = l.cmd.id
                                THEN [@ EXCEPT !.took = t - l.start, !.ok = o.ok]
                                ELSE @,
                        !.okEnd = IF o.ok THEN t ELSE @,
                        !.lastEnd = t]
    IN  IF o.ok THEN RunLoop(q1, t) ELSE [q1 EXCEPT !.isProcessing = FALSE]

\* mutant: an if in place of the while, so the loop ends after one command
AfterExecOnce(q, l, o, t) ==
    [q EXCEPT !.loops = @ \ {l},
              !.lastExecutionTime = IF o.ok THEN t ELSE @,
              !.cur = IF @.id = l.cmd.id
                      THEN [@ EXCEPT !.took = t - l.start, !.ok = o.ok]
                      ELSE @,
              !.okEnd = IF o.ok THEN t ELSE @,
              !.lastEnd = t,
              !.isProcessing = FALSE]

\* lines 55-59 of processQueue: the exec of loop l returned outcome o at time t;
\* the loop records the time of a success and goes on with the next command
AfterExec(q, l, o, t) ==
    RunLoop([q EXCEPT !.loops = @ \ {l},
                      !.lastExecutionTime = IF o.ok THEN t ELSE @,
                      !.cur = IF @.id = l.cmd.id
                              THEN [@ EXCEPT !.took = t - l.start, !.ok = o.ok]
                              ELSE @,
                      !.okEnd = IF o.ok THEN t ELSE @,
                      !.lastEnd = t], t)

\* the value command.resolve or command.reject is called with
Settlement(cmd, o) ==
    [caller |-> cmd.caller, ok |-> o.ok,
     value |-> IF o.ok THEN Trim(o.stdout) ELSE FailedPrefix \o o.msg,
     cause |-> o.msg, raw |-> o.stdout]

\* --------------------------------------------------------------- executeTmux
\* mutant: executeTmux without the test for 'connection refused'
ExecuteTmuxErrorTwoTests(m) ==
    IF \/ Contains(m, NoServerRunning)
       \/ Contains(m, FailedToConnect)
    THEN UnavailablePrefix \o m
    ELSE FailedPrefix \o m

\* the catch block of executeTmux: the error thrown for a rejection with message m
ExecuteTmuxError(m) ==
    IF \/ Contains(m, NoServerRunning)
       \/ Contains(m, FailedToConnect)
       \/ Contains(m, ConnectionRefused)
    THEN UnavailablePrefix \o m
    ELSE FailedPrefix \o m

\* executeTmux seen from its caller: the value returned or the error thrown
ExecuteTmux(s) ==
    IF s.ok THEN [threw |-> FALSE, value |-> s.value]
    ELSE [threw |-> TRUE, value |-> ExecuteTmuxError(s.value)]

\* the history of the errors thrown by executeTmux, after settlement s
Thrown(s) ==
    IF s.ok THEN thrown
    ELSE thrown \cup {[cause |-> s.cause, message |-> ExecuteTmuxError(s.value)]}

\* capturePaneContent seen from its caller
CapturePaneContent(s) ==
    LET r == ExecuteTmux(s)
    IN  IF r.threw /\ Contains(r.value, UnavailableTag)
        THEN [threw |-> FALSE, value |-> Placeholder]
        ELSE r

\* ------------------------------------------------------------ key translator
specialKeys == <<
    << <<"E", "n", "t", "e", "r">>, <<"E", "n", "t", "e", "r">> >>,
    << <<"R", "e", "t", "u", "r", "n">>, <<"E", "n", "t", "e", "r">> >>,
    << <<"T", "a", "b">>, <<"T", "a", "b">> >>,
    << <<"E", "s", "c", "a", "p", "e">>, <<"E", "s", "c", "a", "p", "e">> >>,
    << <<"E", "s", "c">>, <<"E", "s", "c", "a", "p", "e">> >>,
    << <<"S", "p", "a", "c", "e">>, <<"S", "p", "a", "c", "e">> >>,
    << <<"B", "a", "c", "k", "s", "p", "a", "c", "e">>, <<"B", "S", "p", "a", "c", "e">> >>,
    << <<"B", "S", "p", "a", "c", "e">>, <<"B", "S", "p", "a", "c", "e">> >>,
    << <<"D", "e", "l", "e", "t", "e">>, <<"D", "e", "l", "e", "t", "e">> >>,
    << <<"D", "e", "l">>, <<"D", "e", "l", "e", "t", "e">> >>,
    << <<"U", "p">>, <<"U", "p">> >>,
    << <<"D", "o", "w", "n">>, <<"D", "o", "w", "n">> >>,
    << <<"L", "e", "f", "t">>, <<"L", "e", "f", "t">> >>,
    << <<"R", "i", "g", "h", "t">>, <<"R", "i", "g", "h", "t">> >>,
    << <<"H", "o", "m", "e">>, <<"H", "o", "m", "e">> >>,
    << <<"E", "n", "d">>, <<"E", "n", "d">> >>,
    << <<"P", "a", "g", "e", "U", "p">>, <<"P", "P", "a", "g", "e">> >>,
    << <<"P", "a", "g", "e", "D", "o", "w", "n">>, <<"N", "P", "a", "g", "e">> >>,
    << <<"P", "g", "U", "p">>, <<"P", "P", "a", "g", "e">> >>,
    << <<"P", "g", "D", "n">>, <<"N", "P", "a", "g", "e">> >>,
    << <<"I", "n", "s", "e", "r", "t">>, <<"I", "C">> >>,
    << <<"F", "1">>, <<"F", "1">> >>,
    << <<"F", "2">>, <<"F", "2">> >>,
    << <<"F", "3">>, <<"F", "3">> >>,
    << <<"F", "4">>, <<"F", "4">> >>,
    << <<"F", "5">>, <<"F", "5">> >>,
    << <<"F", "6">>, <<"F", "6">> >>,
    << <<"F", "7">>, <<"F", "7">> >>,
    << <<"F", "8">>, <<"F", "8">> >>,
    << <<"F", "9">>, <<"F", "9">> >>,
    << <<"F", "1", "0">>, <<"F", "1", "0">> >>,
    << <<"F", "1", "1">>, <<"F", "1", "1">> >>,
    << <<"F", "1", "2">>, <<"F", "1", "2">> >>
>>
UpperLetters ==
    <<"A", "B", "C", "D", "E", "F", "G", "H", "I", "J", "K", "L", "M", "N", "O", "P", "Q", "R", "S", "T", "U", "V", "W", "X", "Y", "Z">>
LowerLetters ==
    <<"a", "b", "c", "d", "e", "f", "g", "h", "i", "j", "k", "l", "m", "n", "o", "p", "q", "r", "s", "t", "u", "v", "w", "x", "y", "z">>

\* the control characters of the switch of convertToTmuxKeys and their tokens;
\* the character of code 0xNN is written "\\xNN"
controlKeys == <<
    << "\\x03", <<"C", "-", "c">> >>,
    << "\\x04", <<"C", "-", "d">> >>,
    << "\\x1a", <<"C", "-", "z">> >>,
    << "\\x12", <<"C", "-", "r">> >>,
    << "\\x0c", <<"C", "-", "l">> >>,
    << "\\x15", <<"C", "-", "u">> >>,
    << "\\x0b", <<"C", "-", "k">> >>,
    << "\\x01", <<"C", "-", "a">> >>,
    << "\\x05", <<"C", "-", "e">> >>,
    << "\\x08", <<"B", "S", "p", "a", "c", "e">> >>,
    << "\\x7f", <<"D", "e", "l", "e", "t", "e">> >>,
    << "\\x1b", <<"E", "s", "c", "a", "p", "e">> >>,
    << "\t", <<"T", "a", "b">> >>,
    << "\n", <<"E", "n", "t", "e", "r">> >>,
    << "\r", <<"E", "n", "t", "e", "r">> >>,
    << " ", <<"S", "p", "a", "c", "e">> >>
>>

EnterKey == <<"E", "n", "t", "e", "r">>

\* toLowerCase and toUpperCase of one character
LowerChar(ch) ==
    IF \E i \in 1..26 : UpperLetters[i] = ch
    THEN LowerLetters[CHOOSE i \in 1..26 : UpperLetters[i] = ch]
    ELSE ch

UpperChar(ch) ==
    IF \E i \in 1..26 : LowerLetters[i] = ch
    THEN UpperLetters[CHOOSE i \in 1..26 : LowerLetters[i] = ch]
    ELSE ch

\* String.prototype.toLowerCase
ToLowerCase(s) == [i \in 1..Len(s) |-> LowerChar(s[i])]

\* two characters outside ASCII, written by their code: the sharp s, whose upper
\* case is "SS", and the dotless i, whose upper case is "I"; each is its own
\* lower case
SharpS == "\\xdf"
DotlessI == "\\u0131"

\* String.prototype.toUpperCase of a string of one character
ToUpperCase(ch) ==
    IF ch = SharpS THEN <<"S", "S">>
    ELSE IF ch = DotlessI THEN <<"I">>
    ELSE <<UpperChar(ch)>>

\* the token of one character that is not the caret of a Ctrl combination
CharKey(ch) ==
    IF \E k \in 1..Len(controlKeys) : controlKeys[k][1] = ch
    THEN controlKeys[CHOOSE k \in 1..Len(controlKeys) : controlKeys[k][1] = ch][2]
    ELSE IF ch = "'" THEN <<"\"", "'", "\"">>
    ELSE <<ch>>

\* mutant: the caret rule steps over the caret only (i += 1 for i += 2)
RECURSIVE CharWiseCaretStepsOne(_, _)
CharWiseCaretStepsOne(input, i) ==
    IF i > Len(input) THEN <<>>
    ELSE IF input[i] = "^" /\ i + 1 <= Len(input)
    THEN << <<"C", "-">> \o ToLowerCase(ToUpperCase(input[i + 1])) >>
         \o CharWiseCaretStepsOne(input, i + 1)
    ELSE <<CharKey(input[i])>> \o CharWiseCaretStepsOne(input, i + 1)

\* the while loop of convertToTmuxKeys, from position i (1-based)
RECURSIVE CharWise(_, _)
CharWise(input, i) ==
    IF i > Len(input) THEN <<>>
    ELSE IF input[i] = "^" /\ i + 1 <= Len(input)
    THEN << <<"C", "-">> \o ToLowerCase(ToUpperCase(input[i + 1])) >>
         \o CharWise(input, i + 2)
    ELSE <<CharKey(input[i])>> \o CharWise(input, i + 1)

\* mutant: the names of the table are compared as they are written
convertToTmuxKeysCaseSensitive(input) ==
    LET hits == {k \in 1..Len(specialKeys) : specialKeys[k][1] = input}
    IN  IF hits # {}
        THEN <<specialKeys[CHOOSE k \in hits : \A h \in hits : k <= h][2]>>
        ELSE CharWise(input, 1)

convertToTmuxKeys(input) ==
    LET inputLower == ToLowerCase(input)
        hits == {k \in 1..Len(specialKeys) : ToLowerCase(specialKeys[k][1]) = inputLower}
    IN  IF hits # {}
        THEN <<specialKeys[CHOOSE k \in hits : \A h \in hits : k <= h][2]>>
        ELSE CharWise(input, 1)

\* mutant: only a line feed at the end counts
EndsWithLineFeed(command) ==
    command # <<>> /\ command[Len(command)] = "\n"

\* command.endsWith('\n') || command.endsWith('\r')
EndsWithNewline(command) ==
    command # <<>> /\ command[Len(command)] \in {"\n", "\r"}

\* ------------------------------------------------------------------ tracker
\* the characters the promptPatterns of checkCommandStatus end with
promptChars == {"$", ">", "#", "%"}

\* promptPatterns.some(pattern => pattern.test(currentContent))
HasPrompt(content) ==
    LET t == TrimEnd(content)
    IN  t # <<>> /\ t[Len(t)] \in promptChars

\* the record executeCommand stores; exitCode <<>> is an absent exitCode
NewExecution(id, paneId, command, t, initialContent) ==
    [id |-> id, paneId |-> paneId, command |-> command, status |-> "pending",
     startTime |-> t, result |-> initialContent, exitCode |-> <<>>]

\* mutant: a prompt is enough, the content need not differ from the baseline
CompletesIgnoringChange(command, currentContent, t) ==
    HasPrompt(currentContent) /\ t - command.startTime > dwellTime

\* mutant: changed content is enough, it need not end in a prompt
CompletesIgnoringPrompt(command, currentContent, t) ==
    currentContent # command.result /\ t - command.startTime > dwellTime

\* lines 521-539 of checkCommandStatus: the tests a poll that captured
\* currentContent at time t makes before it completes the record
Completes(command, currentContent, t) ==
    LET initialContent == command.result
        hasPrompt == HasPrompt(currentContent)
        contentChanged == currentContent # initialContent
        timeSinceStart == t - command.startTime
    IN  contentChanged /\ hasPrompt /\ timeSinceStart > dwellTime

CheckStatus(command, currentContent, t) ==
    IF Completes(command, currentContent, t)
        THEN [command EXCEPT !.status = "completed", !.exitCode = <<0>>,
                             !.result = currentContent]
        ELSE command

\* mutant: a record whose age is maxAgeMinutes is deleted as well
ExpiredAtThreshold(command, maxAgeMinutes, t) ==
    /\ command.status # "pending"
    /\ (t - command.startTime) * maxAgeMinutes.den >= maxAgeMinutes.num * msPerMinute

\* the test of cleanupOldCommands: ageMinutes > maxAgeMinutes, without the
\* divisions
Expired(command, maxAgeMinutes, t) ==
    /\ command.status # "pending"
    /\ (t - command.startTime) * maxAgeMinutes.den > maxAgeMinutes.num * msPerMinute

\* ------------------------------------------------------------------ callers
NoFrame == [op |-> "none", id |-> 0, paneId |-> "", command |-> <<>>, keys |-> <<>>,
            i |-> 0]
\* what an operation returned: capture tells that checkCommandStatus captured the
\* pane, raw is what the pane showed then and at is the time of that return
NoReturn == [op |-> "none", kind |-> "none", id |-> 0, capture |-> FALSE,
             raw |-> <<>>, at |-> 0, value |-> <<>>]

Command(c, op, arg) == [id |-> nextSeq, caller |-> c, op |-> op, arg |-> arg]

\* what the multiplexer may print for a command
Stdouts(cmd) ==
    IF cmd.op = "capture-pane" THEN PaneTexts
    ELSE IF cmd.op = "list-sessions" THEN {QueryOutput}
    ELSE {<<>>}

\* caller c may call an operation: no continuation is due and c is the first
\* caller that has no operation in flight
Idle(c) ==
    /\ settled = <<>>
    /\ pc[c] = "idle"
    /\ \A d \in Callers : pc[d] = "idle" => c <= d

Called(op) == calls' = [calls EXCEPT ![op] = @ + 1]

Return(c, r) ==
    /\ pc' = [pc EXCEPT ![c] = "idle"]
    /\ frame' = [frame EXCEPT ![c] = NoFrame]
    /\ ret' = [ret EXCEPT ![c] = r]

\* the caller awaits executeTmux(cmd) at place p
Await(c, p, f, cmd) ==
    /\ SetQ(Enqueue(Q, cmd, now))
    /\ submitted' = Append(submitted, cmd.id)
    /\ log' = Append(log, [op |-> cmd.op, arg |-> cmd.arg, caller |-> c, of |-> f.op,
                            rec |-> f.id, text |-> f.command])
    /\ nextSeq' = nextSeq + 1
    /\ pc' = [pc EXCEPT ![c] = p]
    /\ frame' = [frame EXCEPT ![c] = f]
    /\ ret' = [ret EXCEPT ![c] = NoReturn]

\* the exec call of a suspended loop returns with outcome o
ExecReturns(o) ==
    /\ settled = <<>>
    /\ \E l \in loops :
        /\ l.phase = "exec"
        /\ o.ok => o.stdout \in Stdouts(l.cmd)
        /\ SetQ(AfterExec(Q, l, o, now))
        /\ resolved' = Append(resolved, [id |-> l.cmd.id, ok |-> o.ok])
        /\ settled' = <<Settlement(l.cmd, o)>>
    /\ calls' = [calls EXCEPT !.failed = IF o.ok THEN @ ELSE @ + 1]
    /\ UNCHANGED <<now, pc, frame, ret, nextSeq, submitted, log, thrown,
                   activeCommands, obj, nextId, baselineRaw>>

\* a caller calls executeTmux directly, as the topology queries do
CallSubmit(c) ==
    /\ Idle(c)
    /\ Await(c, "submit", [NoFrame EXCEPT !.op = "submit"], Command(c, "list-sessions", <<>>))
    /\ Called("submit")
    /\ UNCHANGED <<now, settled, resolved, thrown, activeCommands, obj, nextId,
                   baselineRaw>>

\* that executeTmux returns or throws
ContinueSubmit ==
    /\ settled # <<>>
    /\ LET s == Head(settled)
           c == s.caller
           r == ExecuteTmux(s)
       IN  /\ pc[c] = "submit"
           /\ Return(c, [NoReturn EXCEPT !.op = "submit",
                                         !.kind = IF r.threw THEN "error" ELSE "value",
                                         !.value = r.value])
           /\ thrown' = Thrown(s)
    /\ settled' = Tail(settled)
    /\ UNCHANGED <<now, qvars, submitted, log, calls, nextSeq, resolved,
                   activeCommands, obj, nextId, baselineRaw>>

\* executeCommand(paneId, command) up to the await of the baseline capture
CallStart(c, paneId, command) ==
    /\ Idle(c)
    /\ Await(c, "start_capture",
             [NoFrame EXCEPT !.op = "start", !.id = nextId, !.paneId = paneId,
                             !.command = command],
             Command(c, "capture-pane", <<>>))
    /\ nextId' = nextId + 1
    /\ Called("start")
    /\ UNCHANGED <<now, settled, resolved, thrown, activeCommands, obj,
                   baselineRaw>>

\* executeCommand from the head of its for loop, i keys being sent already and
\* sent telling that the Enter of line 489 was sent
StartProceed(c, f, i, sent) ==
    IF i < Len(f.keys)
    THEN Await(c, "start_keys", [f EXCEPT !.i = i + 1],
               Command(c, "send-keys", f.keys[i + 1]))
    ELSE IF ~sent /\ ~EndsWithNewline(f.command)
    THEN Await(c, "start_enter", [f EXCEPT !.i = i], Command(c, "send-keys", EnterKey))
    ELSE /\ Return(c, [NoReturn EXCEPT !.op = "start", !.kind = "id", !.id = f.id])
         /\ UNCHANGED <<qvars, submitted, log, nextSeq>>

\* executeCommand: the baseline capture returned; lines 468-484
ContinueStartCapture ==
    /\ settled # <<>>
    /\ LET s == Head(settled)
           c == s.caller
           f == frame[c]
           r == CapturePaneContent(s)
       IN  /\ pc[c] = "start_capture"
           /\ thrown' = Thrown(s)
           /\ IF r.threw
              THEN /\ Return(c, [NoReturn EXCEPT !.op = "start", !.kind = "error",
                                                 !.id = f.id, !.value = r.value])
                   /\ UNCHANGED <<qvars, submitted, log, nextSeq, activeCommands, obj, baselineRaw>>
              ELSE /\ activeCommands' = activeCommands \cup {f.id}
                   /\ obj' = (f.id :> NewExecution(f.id, f.paneId, f.command, now,
                                                    r.value)) @@ obj
                   /\ baselineRaw' = (f.id :> [ok |-> s.ok, raw |-> s.raw]) @@ baselineRaw
                   /\ StartProceed(c, [f EXCEPT !.keys = convertToTmuxKeys(f.command)],
                                   0, FALSE)
    /\ settled' = Tail(settled)
    /\ UNCHANGED <<now, calls, resolved, nextId>>

\* executeCommand: a send-keys of the for loop returned
ContinueStartKeys ==
    /\ settled # <<>>
    /\ LET s == Head(settled)
           c == s.caller
           f == frame[c]
           r == ExecuteTmux(s)
       IN  /\ pc[c] = "start_keys"
           /\ thrown' = Thrown(s)
           /\ IF r.threw
              THEN /\ Return(c, [NoReturn EXCEPT !.op = "start", !.kind = "error",
                                                 !.id = f.id, !.value = r.value])
                   /\ UNCHANGED <<qvars, submitted, log, nextSeq>>
              ELSE StartProceed(c, f, f.i, FALSE)
    /\ settled' = Tail(settled)
    /\ UNCHANGED <<now, calls, resolved, activeCommands, obj, nextId, baselineRaw>>

\* executeCommand: the final Enter returned
ContinueStartEnter ==
    /\ settled # <<>>
    /\ LET s == Head(settled)
           c == s.caller
           f == frame[c]
           r == ExecuteTmux(s)
       IN  /\ pc[c] = "start_enter"
           /\ thrown' = Thrown(s)
           /\ IF r.threw
              THEN /\ Return(c, [NoReturn EXCEPT !.op = "start", !.kind = "error",
                                                 !.id = f.id, !.value = r.value])
                   /\ UNCHANGED <<qvars, submitted, log, nextSeq>>
              ELSE StartProceed(c, f, f.i, TRUE)
    /\ settled' = Tail(settled)
    /\ UNCHANGED <<now, calls, resolved, activeCommands, obj, nextId, baselineRaw>>

\* mutant: checkCommandStatus without the test of line 513
PollEntryNoTerminalTest(commandId) ==
    IF commandId \notin activeCommands THEN "null" ELSE "capture"

\* mutant: checkCommandStatus without the test of line 511
PollEntryNoNullTest(commandId) ==
    IF commandId \in activeCommands /\ obj[commandId].status # "pending" THEN "stored"
    ELSE "capture"

\* lines 510-513 of checkCommandStatus: what it does before any await
PollEntry(commandId) ==
    IF commandId \notin activeCommands THEN "null"
    ELSE IF obj[commandId].status # "pending" THEN "stored"
    ELSE "capture"

\* mutant: a capture that fails makes the record an error
PollResultErrorOnFailure(command, r, t) ==
    IF r.threw THEN [command EXCEPT !.status = "error"]
    ELSE CheckStatus(command, r.value, t)

\* mutant: a capture that fails makes the record completed
PollResultCompletedOnFailure(command, r, t) ==
    IF r.threw THEN [command EXCEPT !.status = "completed", !.exitCode = <<0>>]
    ELSE CheckStatus(command, r.value, t)

\* the try and catch of checkCommandStatus: the record after the capture gave r
PollResult(command, r, t) ==
    IF r.threw THEN command ELSE CheckStatus(command, r.value, t)

\* checkCommandStatus(commandId) up to its return or to the await of its capture
CallPoll(c, commandId) ==
    /\ Idle(c)
    /\ Called("poll")
    /\ IF PollEntry(commandId) = "null"
       THEN /\ Return(c, [NoReturn EXCEPT !.op = "poll", !.kind = "null", !.id = commandId])
            /\ UNCHANGED <<qvars, submitted, log, nextSeq>>
       ELSE IF PollEntry(commandId) = "stored"
       THEN /\ Return(c, [NoReturn EXCEPT !.op = "poll", !.kind = "record",
                                          !.id = commandId, !.value = obj[commandId]])
            /\ UNCHANGED <<qvars, submitted, log, nextSeq>>
       ELSE Await(c, "poll_capture", [NoFrame EXCEPT !.op = "poll", !.id = commandId],
                  Command(c, "capture-pane", <<>>))
    /\ UNCHANGED <<now, settled, resolved, thrown, activeCommands, obj, nextId,
                   baselineRaw>>

\* checkCommandStatus: the capture returned; lines 517-553
ContinuePoll ==
    /\ settled # <<>>
    /\ LET s == Head(settled)
           c == s.caller
           id == frame[c].id
           r == CapturePaneContent(s)
           command == PollResult(obj[id], r, now)
       IN  /\ pc[c] = "poll_capture"
           /\ thrown' = Thrown(s)
           /\ obj' = [obj EXCEPT ![id] = command]
           /\ activeCommands' = IF ~r.threw /\ Completes(obj[id], r.value, now)
                                THEN activeCommands \cup {id}
                                ELSE activeCommands
           /\ Return(c, [NoReturn EXCEPT !.op = "poll", !.kind = "record", !.id = id,
                                         !.capture = TRUE, !.raw = s.raw, !.at = now,
                                         !.value = command])
    /\ settled' = Tail(settled)
    /\ UNCHANGED <<now, qvars, submitted, log, calls, nextSeq, resolved, nextId,
                   baselineRaw>>

\* cleanupOldCommands(maxAgeMinutes)
CallSweep(c, maxAgeMinutes) ==
    /\ Idle(c)
    /\ Called("sweep")
    /\ activeCommands' = {id \in activeCommands : ~Expired(obj[id], maxAgeMinutes, now)}
    /\ Return(c, [NoReturn EXCEPT !.op = "sweep", !.kind = "void"])
    /\ UNCHANGED <<now, qvars, submitted, log, settled, nextSeq, resolved, thrown, obj,
                   nextId, baselineRaw>>

\* sendRawKeys from the head of its for loop, i keys being sent already
RawProceed(c, f, i) ==
    IF i < Len(f.keys)
    THEN Await(c, "raw_keys", [f EXCEPT !.i = i + 1],
               Command(c, "send-keys", f.keys[i + 1]))
    ELSE /\ Return(c, [NoReturn EXCEPT !.op = "raw", !.kind = "void"])
         /\ UNCHANGED <<qvars, submitted, log, nextSeq>>

\* sendRawKeys(paneId, keys) up to its first await
CallRaw(c, paneId, keys) ==
    /\ Idle(c)
    /\ Called("raw")
    /\ RawProceed(c, [NoFrame EXCEPT !.op = "raw", !.paneId = paneId, !.command = keys,
                                     !.keys = convertToTmuxKeys(keys)], 0)
    /\ UNCHANGED <<now, settled, resolved, thrown, activeCommands, obj, nextId,
                   baselineRaw>>

\* sendRawKeys: a send-keys of the for loop returned
ContinueRaw ==
    /\ settled # <<>>
    /\ LET s == Head(settled)
           c == s.caller
           f == frame[c]
           r == ExecuteTmux(s)
       IN  /\ pc[c] = "raw_keys"
           /\ thrown' = Thrown(s)
           /\ IF r.threw
              THEN /\ Return(c, [NoReturn EXCEPT !.op = "raw", !.kind = "error",
                                                 !.value = r.value])
                   /\ UNCHANGED <<qvars, submitted, log, nextSeq>>
              ELSE RawProceed(c, f, f.i)
    /\ settled' = Tail(settled)
    /\ UNCHANGED <<now, calls, resolved, activeCommands, obj, nextId, baselineRaw>>

\* String.prototype.split: the pieces of s between the separators sep
RECURSIVE SplitFrom(_, _, _, _)
SplitFrom(s, sep, i, piece) ==
    IF i > Len(s) THEN <<piece>>
    ELSE IF s[i] = sep THEN <<piece>> \o SplitFrom(s, sep, i + 1, <<>>)
    ELSE SplitFrom(s, sep, i + 1, Append(piece, s[i]))

Split(s, sep) == SplitFrom(s, sep, 1, <<>>)

\* the read-only queries and the commands they submit
Queries == {"list-sessions", "list-windows", "list-panes", "capture-pane"}

\* what listSessions, listWindows and listPanes return for output: no element for
\* an empty output, else for each line its fields, of which the element is made
ListOf(output) ==
    IF output = <<>> THEN <<>>
    ELSE LET lines == Split(output, "\n")
         IN  [k \in 1..Len(lines) |-> Split(lines[k], ":")]

\* the try and catch of a query: what it returns or throws when executeTmux gave r
QueryResult(kind, r) ==
    IF r.threw
    THEN IF Contains(r.value, UnavailableTag)
         THEN IF kind = "capture-pane" THEN [kind |-> "text", value |-> Placeholder]
              ELSE [kind |-> "list", value |-> <<>>]
         ELSE [kind |-> "error", value |-> r.value]
    ELSE IF kind = "capture-pane" THEN [kind |-> "text", value |-> r.value]
    ELSE [kind |-> "list", value |-> ListOf(r.value)]

\* listSessions, listWindows, listPanes or capturePaneContent up to its await
CallQuery(c, kind) ==
    /\ Idle(c)
    /\ Called("query")
    /\ Await(c, "query", [NoFrame EXCEPT !.op = kind], Command(c, kind, <<>>))
    /\ UNCHANGED <<now, settled, resolved, thrown, activeCommands, obj, nextId,
                   baselineRaw>>

\* that executeTmux returns or throws
ContinueQuery ==
    /\ settled # <<>>
    /\ LET s == Head(settled)
           c == s.caller
           q == QueryResult(frame[c].op, ExecuteTmux(s))
       IN  /\ pc[c] = "query"
           /\ Return(c, [NoReturn EXCEPT !.op = frame[c].op, !.kind = q.kind,
                                         !.value = q.value])
           /\ thrown' = Thrown(s)
    /\ settled' = Tail(settled)
    /\ UNCHANGED <<now, qvars, submitted, log, calls, nextSeq, resolved,
                   activeCommands, obj, nextId, baselineRaw>>

\* ------------------------------------------------------------- environment
\* the instants at which the program may behave differently than just before:
\* the time a setTimeout is due, and the end of the dwell time of a record and the
\* instant after it
Deadlines ==
    {l.at + l.delay : l \in {k \in loops : k.phase = "timer"}}
    \cup {obj[id].startTime + dwellTime : id \in DOMAIN obj}
    \cup {obj[id].startTime + dwellTime + 1 : id \in DOMAIN obj}

\* the first of these instants that is still to come
IsNextDeadline(t) ==
    t \in Deadlines /\ t > now /\ \A u \in Deadlines : u > now => t <= u

\* time passes until the instant t
Tick(t) ==
    /\ settled = <<>>
    /\ now < t
    /\ now' = t
    /\ UNCHANGED <<qvars, submitted, log, settled, pc, frame, ret, calls, nextSeq, resolved,
                   thrown, activeCommands, obj, nextId, baselineRaw>>

\* ------------------------------------------------------------ specifications
Init ==
    /\ now = minInterval
    /\ queue = <<>>
    /\ isProcessing = FALSE
    /\ lastExecutionTime = 0
    /\ loops = {}
    /\ settled = <<>>
    /\ pc = [c \in Callers |-> "idle"]
    /\ frame = [c \in Callers |-> NoFrame]
    /\ ret = [c \in Callers |-> NoReturn]
    /\ calls = [start |-> 0, poll |-> 0, sweep |-> 0, submit |-> 0, raw |-> 0, query |-> 0,
                failed |-> 0]
    /\ nextSeq = 1
    /\ submitted = <<>>
    /\ log = <<>>
    /\ invoked = <<>>
    /\ cur = NoTimes
    /\ okEnd = 0
    /\ lastEnd = 0
    /\ resolved = <<>>
    /\ thrown = {}
    /\ activeCommands = {}
    /\ obj = [id \in {} |-> NoFrame]
    /\ nextId = 1
    /\ baselineRaw = [id \in {} |-> NoFrame]

\* the tracker on top of the command queue; the clock steps from one deadline to
\* the next
Next ==
    \/ \E c \in Callers, t \in StartTexts : calls.start < MaxStarts /\ CallStart(c, PaneId, t)
    \/ \E c \in Callers, id \in 1..nextId : calls.poll < MaxPolls /\ CallPoll(c, id)
    \/ \E c \in Callers, a \in SweepAges : calls.sweep < MaxSweeps /\ CallSweep(c, a)
    \/ \E o \in Outcomes : (o.ok \/ calls.failed < MaxFailures) /\ ExecReturns(o)
    \/ TimerFires
    \/ ContinueStartCapture
    \/ ContinueStartKeys
    \/ ContinueStartEnter
    \/ ContinuePoll
    \/ \E t \in Deadlines : IsNextDeadline(t) /\ t <= MaxNow /\ Tick(t)

Spec == Init /\ [][Next]_vars

\* the command queue alone, on a fine clock, with every kind of failure message
NextQ ==
    \/ \E c \in Callers : calls.submit < MaxCallsQ /\ CallSubmit(c)
    \/ \E o \in OutcomesQ : ExecReturns(o)
    \/ TimerFires
    \/ ContinueSubmit
    \/ now + FineStep <= MaxNowQ /\ Tick(now + FineStep)

SpecQ == Init /\ [][NextQ]_vars

\* executeTmux and every kind of failure of the exec call
NextE ==
    \/ \E c \in Callers : calls.submit < MaxCallsE /\ CallSubmit(c)
    \/ \E o \in OutcomesE : ExecReturns(o)
    \/ TimerFires
    \/ ContinueSubmit
    \/ now + FineStep <= MaxNowQ /\ Tick(now + FineStep)

SpecE == Init /\ [][NextE]_vars

\* two calls of executeCommand and a call of checkCommandStatus that may overlap
NextS ==
    \/ \E c \in Callers, t \in StartTextsS :
            calls.start < MaxStartsS /\ CallStart(c, PaneId, t)
    \/ \E c \in Callers, id \in 1..nextId : calls.poll < MaxPollsS /\ CallPoll(c, id)
    \/ \E o \in OutcomesS : (o.ok \/ calls.failed < MaxFailuresS) /\ ExecReturns(o)
    \/ TimerFires
    \/ ContinueStartCapture
    \/ ContinueStartKeys
    \/ ContinueStartEnter
    \/ ContinuePoll
    \/ \E t \in Deadlines : IsNextDeadline(t) /\ t <= MaxNowS /\ Tick(t)

SpecS == Init /\ [][NextS]_vars

\* the command queue with nothing to stop the clock: every exec call returns,
\* at once or after more than the minimum interval, every timer fires, every
\* continuation runs and time passes
NextL ==
    \/ \E c \in Callers : calls.submit < MaxCallsL /\ CallSubmit(c)
    \/ \E o \in OutcomesQ : ExecReturns(o)
    \/ TimerFires
    \/ ContinueSubmit
    \/ \E t \in Deadlines : IsNextDeadline(t) /\ Tick(t)
    \/ \E l \in loops : l.phase = "exec" /\ now = l.start
                          /\ Tick(now + minInterval + FineStep)

SpecL ==
    /\ Init /\ [][NextL]_vars
    /\ WF_vars(\E o \in OutcomesQ : ExecReturns(o))
    /\ WF_vars(TimerFires)
    /\ WF_vars(ContinueSubmit)
    /\ WF_vars(\E t \in Deadlines : IsNextDeadline(t) /\ Tick(t))

\* the texts of SpecK: the names of the table as written, in lower case and in
\* upper case, two texts that only begin as a name does, and every text of up to
\* MaxKeyLen characters of KeyAlphabet
KeyAlphabet == {"^", "c", "Z", SharpS, DotlessI}
KeyNames ==
    UNION {{specialKeys[k][1], ToLowerCase(specialKeys[k][1]),
            [i \in 1..Len(specialKeys[k][1]) |-> UpperChar(specialKeys[k][1][i])]}
           : k \in 1..Len(specialKeys)}
KeyTexts ==
    KeyNames \cup {<<"E", "n", "t", "e", "r", "s">>, <<"u">>}
             \cup UNION {[1..n -> KeyAlphabet] : n \in 0..MaxKeyLen}
OutcomesK == {Success(<<>>), Failure(MsgNoPane)}

\* sendRawKeys alone, for every text of KeyTexts
NextK ==
    \/ \E c \in Callers, t \in KeyTexts : calls.raw < MaxRaws /\ CallRaw(c, PaneId, t)
    \/ \E o \in OutcomesK : ExecReturns(o)
    \/ TimerFires
    \/ ContinueRaw
    \/ \E t \in Deadlines : IsNextDeadline(t) /\ t <= MaxNowS /\ Tick(t)

SpecK == Init /\ [][NextK]_vars

\* the read-only queries alone
OutcomesR ==
    Successes \cup {Failure(MsgNoServer), Failure(MsgNoPane), Failure(MsgTagged)}

NextR ==
    \/ \E c \in Callers, k \in Queries : calls.query < MaxQueries /\ CallQuery(c, k)
    \/ \E o \in OutcomesR : ExecReturns(o)
    \/ TimerFires
    \/ ContinueQuery
    \/ \E t \in Deadlines : IsNextDeadline(t) /\ t <= MaxNowS /\ Tick(t)

SpecR == Init /\ [][NextR]_vars

\* ------------------------------------------------------------------- claims
NoDuplicates(seq) == \A i, j \in 1..Len(seq) : seq[i] = seq[j] => i = j

\* C1: the exec calls start in the order of submission: the ids of the commands
\* invoked so far are the first ids of the commands submitted, in that order.
C1_InvokedInSubmissionOrder ==
    /\ Len(invoked) <= Len(submitted)
    /\ \A i \in 1..Len(invoked) : invoked[i] = submitted[i]

\* C1 witness: three commands were invoked, the running one after it waited in the
\* queue behind another caller's command, and a further command is waiting.
C1_Witness ==
    /\ Len(invoked) >= 3
    /\ queue # <<>>
    /\ \E l \in loops : l.phase = "exec" /\ Head(queue).caller # l.cmd.caller

\* C2: at most one activation of processQueue is suspended in its loop, so at most
\* one exec call is in flight, and a submission made while isProcessing is set
\* appends its command to the queue and leaves the loop as it is.
C2_SingleDrainLoop ==
    /\ [](Cardinality(loops) <= 1)
    /\ [][(isProcessing /\ Len(submitted') > Len(submitted))
            => /\ loops' = loops
               /\ Len(queue') = Len(queue) + 1
               /\ SubSeq(queue', 1, Len(queue)) = queue
               /\ queue'[Len(queue')].id = submitted'[Len(submitted')]
               /\ invoked' = invoked]_vars

\* C2 witness: a command was submitted while the loop was running another one.
C2_Witness ==
    /\ isProcessing
    /\ queue # <<>>
    /\ \E l \in loops : l.phase = "exec"

\* C3: no command is handed to exec twice, none is settled twice (so never with a
\* success and a failure), and every command settled was handed to exec before.
C3_InvokedAndSettledOnce ==
    /\ NoDuplicates(invoked)
    /\ NoDuplicates([i \in 1..Len(resolved) |-> resolved[i].id])
    /\ \A i \in 1..Len(resolved) : \E j \in 1..Len(invoked) : invoked[j] = resolved[i].id

\* C3 witness: one command was resolved and another one rejected.
C3_Witness ==
    /\ \E i \in 1..Len(resolved) : resolved[i].ok
    /\ \E i \in 1..Len(resolved) : ~resolved[i].ok

\* C4 (as claimed): an exec call starts at least minInterval after the exec call
\* before it returned, whether that one succeeded or failed.
C4_SpacedAfterEveryInvocation ==
    cur.gap # -1 => cur.gap >= minInterval

\* C5 (as claimed): when the exec call before took longer than minInterval, the
\* next command is handed to exec without a setTimeout.
C5_NoDelayAfterLongInvocation ==
    cur.prevTook > minInterval => cur.delay = 0

\* C5 (amended): when at least minInterval has passed since the last successful
\* exec call returned, at the time the loop takes a command, the command is handed
\* to exec at once, without a setTimeout; how long the exec call before took plays
\* no part.
C5_NoDelayOnceIntervalElapsed ==
    (cur.id # 0 /\ cur.since >= minInterval) => (cur.delay = 0 /\ cur.wait = 0)

\* C5 witness: the exec call before failed after more than minInterval, and the
\* next command was handed to exec at once.
C5_Witness ==
    /\ cur.prevTook > minInterval
    /\ ~cur.prevOk
    /\ cur.since >= minInterval
    /\ cur.gap = 0
    /\ cur.delay = 0

IsUnavailableCause(m) ==
    \/ Contains(m, NoServerRunning)
    \/ Contains(m, FailedToConnect)
    \/ Contains(m, ConnectionRefused)

\* C6: an error thrown by executeTmux starts with exactly one of the two tags, and
\* with 'Tmux server not available' exactly if the message of the exec failure
\* contains one of the three texts.
C6_FailureTags ==
    \A e \in thrown :
        /\ StartsWith(e.message, UnavailablePrefix) # StartsWith(e.message, FailedPrefix)
        /\ StartsWith(e.message, UnavailablePrefix) <=> IsUnavailableCause(e.cause)

\* C6 witness: executeTmux threw an error of either tag, one of them for a failure
\* whose message has 'connection refused' after other text.
C6_Witness ==
    /\ \E e \in thrown : StartsWith(e.message, FailedPrefix)
    /\ \E e \in thrown : StartsWith(e.message, UnavailablePrefix) /\ e.cause = MsgRefused

\* C7: the status of a record changes only from pending, and then to completed or
\* to error; no record is lost from the objects the operations hold.
C7_StatusOnlyLeavesPending ==
    [][/\ DOMAIN obj \subseteq DOMAIN obj'
       /\ \A id \in DOMAIN obj :
            obj'[id].status # obj[id].status
                => /\ obj[id].status = "pending"
                   /\ obj'[id].status \in {"completed", "error"}]_vars

\* C7 witness: two calls of checkCommandStatus for one id both captured the pane
\* and returned the record completed, so the capture of one of them returned when
\* the record was completed already.
C7_Witness ==
    \E c, d \in Callers :
        /\ c # d
        /\ ret[c].op = "poll" /\ ret[c].capture /\ ret[c].kind = "record"
        /\ ret[d].op = "poll" /\ ret[d].capture /\ ret[d].kind = "record"
        /\ ret[c].id = ret[d].id
        /\ ret[c].value.status = "completed"
        /\ ret[d].value.status = "completed"

\* C8: checkCommandStatus on a record in the map that is not pending returns the
\* stored record, changes no record and no entry of the map, and submits nothing:
\* the queue, its loop and the exec calls stay as they are.
C8_TerminalPollReturnsStored ==
    [][\A c \in Callers, id \in DOMAIN obj :
          (CallPoll(c, id) /\ id \in activeCommands /\ obj[id].status # "pending")
              => /\ ret'[c].kind = "record"
                 /\ ret'[c].value = obj[id]
                 /\ obj' = obj
                 /\ activeCommands' = activeCommands
                 /\ submitted' = submitted
                 /\ queue' = queue
                 /\ loops' = loops
                 /\ invoked' = invoked]_vars

\* C8 witness: a call of checkCommandStatus returned a completed record of the
\* map without a capture.
C8_Witness ==
    \E c \in Callers :
        /\ ret[c].op = "poll" /\ ret[c].kind = "record" /\ ~ret[c].capture
        /\ ret[c].id \in activeCommands
        /\ ret[c].value.status = "completed"
        /\ ret[c].value = obj[ret[c].id]

\* the capture of the checkCommandStatus of caller c returns in this step
PollCaptureReturns(c) ==
    /\ settled # <<>>
    /\ Head(settled).caller = c
    /\ pc[c] = "poll_capture"
    /\ ContinuePoll

C10_CompletesFromDwellTimeOn ==
    [][\A c \in Callers :
          (/\ PollCaptureReturns(c)
           /\ obj[frame[c].id].status = "pending"
           /\ Head(settled).ok
           /\ Head(settled).value # obj[frame[c].id].result
           /\ HasPrompt(Head(settled).value)
           /\ now - obj[frame[c].id].startTime >= dwellTime)
              => /\ obj'[frame[c].id].status = "completed"
                 /\ obj'[frame[c].id].result = Head(settled).value
                 /\ obj'[frame[c].id].exitCode = <<0>>]_vars

\* what executeCommand stored as result when it created record id: the baseline
\* capture trimmed, or the placeholder of capturePaneContent
Baseline(id) ==
    IF baselineRaw[id].ok THEN Trim(baselineRaw[id].raw) ELSE Placeholder

\* C11: a record becomes completed only in a step of checkCommandStatus whose
\* capture differs from the stored baseline and ends in a prompt, the dwell time
\* having passed since the start; a pending record has the baseline as result and
\* no exit code, and a capture without a prompt at its end, or one that returns
\* less than the dwell time after the start, leaves the record as it is.
C11_CompletedOnlyByQualifiedPoll ==
    /\ [](\A id \in DOMAIN obj :
            obj[id].status = "pending"
                => obj[id].result = Baseline(id) /\ obj[id].exitCode = <<>>)
    /\ [][/\ \A id \in DOMAIN obj' :
                (obj'[id].status = "completed"
                 /\ (id \in DOMAIN obj => obj[id].status # "completed"))
                    => \E c \in Callers :
                        /\ PollCaptureReturns(c)
                        /\ frame[c].id = id
                        /\ id \in DOMAIN obj
                        /\ ~CapturePaneContent(Head(settled)).threw
                        /\ CapturePaneContent(Head(settled)).value # Baseline(id)
                        /\ HasPrompt(CapturePaneContent(Head(settled)).value)
                        /\ now - obj[id].startTime >= dwellTime
          /\ \A c \in Callers :
                (/\ PollCaptureReturns(c)
                 /\ obj[frame[c].id].status = "pending"
                 /\ ~CapturePaneContent(Head(settled)).threw
                 /\ \/ ~HasPrompt(CapturePaneContent(Head(settled)).value)
                    \/ now - obj[frame[c].id].startTime < dwellTime)
                    => /\ obj'[frame[c].id] = obj[frame[c].id]
                       /\ ret'[c].value = obj[frame[c].id]]_vars

\* C11 witness: one checkCommandStatus captured changed content that ends in a
\* prompt before the dwell time had passed, another one captured changed content
\* without a prompt at its end after the dwell time, and both returned the record
\* pending.
C11_Witness ==
    \E c, d \in Callers :
        /\ ret[c].op = "poll" /\ ret[c].capture /\ ret[c].kind = "record"
        /\ ret[d].op = "poll" /\ ret[d].capture /\ ret[d].kind = "record"
        /\ ret[c].id = ret[d].id
        /\ ret[c].value.status = "pending" /\ ret[d].value.status = "pending"
        /\ baselineRaw[ret[c].id].ok
        /\ Trim(ret[c].raw) # Baseline(ret[c].id) /\ HasPrompt(ret[c].raw)
        /\ ret[c].at - ret[c].value.startTime < dwellTime
        /\ Trim(ret[d].raw) # Baseline(ret[d].id) /\ ~HasPrompt(ret[d].raw)
        /\ ret[d].raw # <<>>
        /\ ret[d].at - ret[d].value.startTime > dwellTime

\* C12: when the capture of a checkCommandStatus fails, whether capturePaneContent
\* throws or gives its placeholder, no record and no entry of the map changes, a
\* pending record stays pending, and checkCommandStatus returns the record.
C12_FailedCaptureChangesNothing ==
    [][\A c \in Callers :
          (PollCaptureReturns(c) /\ ~Head(settled).ok)
              => /\ obj' = obj
                 /\ activeCommands' = activeCommands
                 /\ obj[frame[c].id].status = "pending"
                        => obj'[frame[c].id].status = "pending"
                 /\ ret'[c].kind = "record"
                 /\ ret'[c].value = obj[frame[c].id]]_vars

\* C12 witness: two calls of checkCommandStatus returned the record pending, the
\* capture of one having failed with a message that is no sign of a missing
\* server and the capture of the other with one that is, more than the dwell time
\* after the start.
C12_Witness ==
    \E c, d \in Callers :
        /\ c # d
        /\ ret[c].op = "poll" /\ ret[c].capture /\ ret[c].kind = "record"
        /\ ret[d].op = "poll" /\ ret[d].capture /\ ret[d].kind = "record"
        /\ ret[c].raw = <<>> /\ ret[d].raw = <<>>
        /\ ret[c].value.status = "pending" /\ ret[d].value.status = "pending"
        /\ ret[d].at - ret[d].value.startTime > dwellTime
        /\ \E e \in thrown : StartsWith(e.message, FailedPrefix)
        /\ \E e \in thrown : StartsWith(e.message, UnavailablePrefix)

\* C13: cleanupOldCommands(maxAgeMinutes) deletes from the map exactly the records
\* that are not pending and whose age is more than maxAgeMinutes, and changes no
\* record: a pending record stays whatever its age, and so does a record that is
\* not pending and whose age is maxAgeMinutes or less.
C13_SweepRemovesExactlyOldTerminal ==
    [][\A c \in Callers, a \in SweepAges :
          CallSweep(c, a)
              => /\ activeCommands' \subseteq activeCommands
                 /\ \A id \in activeCommands :
                        id \notin activeCommands'
                            <=> /\ obj[id].status \in {"completed", "error"}
                                /\ (now - obj[id].startTime) * a.den
                                       > a.num * msPerMinute
                 /\ obj' = obj]_vars

\* C13 witness: cleanupOldCommands has returned and a completed record is no
\* longer in the map.
C13_Witness ==
    /\ \E c \in Callers : ret[c].op = "sweep"
    /\ \E id \in DOMAIN obj : id \notin activeCommands /\ obj[id].status = "completed"

\* the commands of the executeCommand that made record r, as <<op, arg>>, in the
\* order in which they were handed to exec
InvokedOfStart(r) ==
    LET Mine(k) == log[k].of = "start" /\ log[k].rec = r
        ids == SelectSeq(invoked, Mine)
    IN  [i \in 1..Len(ids) |-> <<log[ids[i]].op, log[ids[i]].arg>>]

\* the text given to the executeCommand that made record r
TextOfStart(r) ==
    log[CHOOSE k \in 1..Len(log) : log[k].of = "start" /\ log[k].rec = r].text

\* what the claim says executeCommand(paneId, text) hands to exec
ClaimedOfStart(text) ==
    LET keys == convertToTmuxKeys(text)
    IN  << <<"capture-pane", <<>> >> >>
        \o [i \in 1..Len(keys) |-> <<"send-keys", keys[i]>>]
        \o (IF text # <<>> /\ text[Len(text)] \in {"\n", "\r"}
            THEN <<>> ELSE << <<"send-keys", EnterKey>> >>)

IsPrefix(s, t) == Len(s) <= Len(t) /\ \A i \in 1..Len(s) : s[i] = t[i]

\* C14: the commands of one executeCommand reach exec in the order: the baseline
\* capture, one send-keys for each key of convertToTmuxKeys(text) in their order,
\* then one send-keys Enter iff text ends neither in a line feed nor in a carriage
\* return; all of them when executeCommand returned its id; and when the first
\* send-keys is submitted the record is in the map, pending, with the baseline.
C14_StartSubmitsInOrder ==
    /\ [](\A r \in 1..(nextId - 1) :
            InvokedOfStart(r) # <<>>
                => /\ IsPrefix(InvokedOfStart(r), ClaimedOfStart(TextOfStart(r)))
                   /\ (\E c \in Callers : ret[c].op = "start" /\ ret[c].kind = "id"
                                              /\ ret[c].id = r)
                          => InvokedOfStart(r) = ClaimedOfStart(TextOfStart(r)))
    /\ [][\A k \in (Len(log) + 1)..Len(log') :
            (/\ log'[k].of = "start" /\ log'[k].op = "send-keys"
             /\ \A j \in 1..Len(log) :
                    ~(log[j].of = "start" /\ log[j].rec = log'[k].rec
                      /\ log[j].op = "send-keys"))
                => /\ log'[k].rec \in activeCommands'
                   /\ obj'[log'[k].rec].status = "pending"
                   /\ obj'[log'[k].rec].result =
                          (IF baselineRaw'[log'[k].rec].ok
                           THEN Trim(baselineRaw'[log'[k].rec].raw) ELSE Placeholder)
                   /\ obj'[log'[k].rec].command = log'[k].text]_vars

\* C14 witness: two calls of executeCommand returned their ids, one for a text of
\* two characters, followed by Enter, and one for a text that ends in a carriage
\* return, not followed by Enter.
C14_Witness ==
    \E c, d \in Callers :
        /\ ret[c].op = "start" /\ ret[c].kind = "id"
        /\ ret[d].op = "start" /\ ret[d].kind = "id"
        /\ TextOfStart(ret[c].id) = <<"l", "s">>
        /\ TextOfStart(ret[d].id) = <<"l", "\r">>
        /\ Len(InvokedOfStart(ret[c].id)) = 4
        /\ Len(InvokedOfStart(ret[d].id)) = 3

\* C15 (as claimed): between the first and the last send-keys of one executeCommand
\* no command of another operation is handed to exec.
C15_KeysOfOneStartNotInterleaved ==
    \A i, j, k \in 1..Len(invoked) :
        (/\ i < j /\ j < k
         /\ log[invoked[i]].of = "start" /\ log[invoked[i]].op = "send-keys"
         /\ log[invoked[k]].of = "start" /\ log[invoked[k]].op = "send-keys"
         /\ log[invoked[i]].rec = log[invoked[k]].rec)
            => /\ log[invoked[j]].of = "start"
               /\ log[invoked[j]].rec = log[invoked[i]].rec

\* C16 (as claimed): the result and the exit code of a completed record never
\* change, also when several calls of checkCommandStatus for it are in flight.
C16_CompletedSnapshotNeverChanges ==
    [][\A id \in DOMAIN obj :
          obj[id].status = "completed"
              => /\ obj'[id].result = obj[id].result
                 /\ obj'[id].exitCode = obj[id].exitCode]_vars

\* C17: when every exec call returns, every command submitted is handed to exec
\* and settled, its caller gets a value or an error back, and no command stays in
\* the queue: a failure does not end the loop, and a command submitted while the
\* loop runs or as it ends is taken.
C17_EverySubmissionSettles ==
    /\ \A id \in 1..MaxCallsL :
          (Len(submitted) >= id)
              ~> (/\ \E i \in 1..Len(invoked) : invoked[i] = id
                  /\ \E i \in 1..Len(resolved) : resolved[i].id = id)
    /\ \A c \in Callers :
          (pc[c] = "submit")
              ~> (pc[c] = "idle" /\ ret[c].op = "submit"
                  /\ ret[c].kind \in {"value", "error"})
    /\ (queue # <<>> \/ isProcessing) ~> (queue = <<>> /\ ~isProcessing /\ loops = {})

\* C17 witness: three commands are settled, one of them submitted while the loop
\* was running, the first of them with a failure, and the queue is at rest.
C17_Witness ==
    /\ Len(resolved) >= 3
    /\ ~resolved[1].ok
    /\ resolved[3].ok
    /\ queue = <<>> /\ ~isProcessing /\ loops = {}
    /\ \A c \in Callers : pc[c] = "idle"

\* C18: checkCommandStatus on an id that is not in the map returns null, throws
\* nothing, submits nothing to the queue and leaves the map and the records as
\* they are.
C18_UnknownIdGivesNull ==
    [][\A c \in Callers, id \in 1..nextId :
          (CallPoll(c, id) /\ id \notin activeCommands)
              => /\ ret'[c].op = "poll"
                 /\ ret'[c].kind = "null"
                 /\ pc'[c] = "idle"
                 /\ thrown' = thrown
                 /\ activeCommands' = activeCommands
                 /\ obj' = obj
                 /\ submitted' = submitted
                 /\ queue' = queue
                 /\ loops' = loops
                 /\ invoked' = invoked]_vars

\* C18 witness: checkCommandStatus returned null for the id of a record that
\* cleanupOldCommands had deleted from the map.
C18_Witness ==
    \E c \in Callers :
        /\ ret[c].op = "poll" /\ ret[c].kind = "null"
        /\ ret[c].id \in DOMAIN obj
        /\ ret[c].id \notin activeCommands

\* two texts are the same when the case of their letters is ignored
EqualsIgnoringCase(a, b) ==
    Len(a) = Len(b) /\ \A i \in 1..Len(a) : LowerChar(a[i]) = LowerChar(b[i])

\* C19: when the whole text is, but for the case of its letters, a name of the
\* table of convertToTmuxKeys, the keys are exactly one key, the one of that name.
C19_NamedKeyGivesOneToken ==
    \A c \in Callers :
        frame[c].op = "raw"
            => \A k \in 1..Len(specialKeys) :
                  EqualsIgnoringCase(frame[c].command, specialKeys[k][1])
                      => frame[c].keys = <<specialKeys[k][2]>>

\* C19 witness: sendRawKeys is sending the one key PPage for the text PAGEUP.
C19_Witness ==
    \E c \in Callers :
        /\ frame[c].op = "raw"
        /\ frame[c].command = <<"P", "A", "G", "E", "U", "P">>
        /\ frame[c].keys = << <<"P", "P", "a", "g", "e">> >>
        /\ pc[c] = "raw_keys"

\* the text of caller c ends in a caret and a character, resp. in a caret, and
\* has no caret before
EndsInCaretAndChar(c) ==
    LET t == frame[c].command
    IN  /\ frame[c].op = "raw"
        /\ Len(t) >= 2
        /\ t[Len(t) - 1] = "^"
        /\ \A i \in 1..(Len(t) - 2) : t[i] # "^"

EndsInLoneCaret(c) ==
    LET t == frame[c].command
    IN  /\ frame[c].op = "raw"
        /\ Len(t) >= 1
        /\ t[Len(t)] = "^"
        /\ \A i \in 1..(Len(t) - 1) : t[i] # "^"

\* C20 (as claimed): a caret and the character after it give one key, C- and that
\* character in lower case, and a caret at the end of the text gives the key ^.
C20_CaretGivesControlOfLowerCase ==
    \A c \in Callers :
        LET t == frame[c].command
            keys == frame[c].keys
        IN  /\ EndsInCaretAndChar(c)
                => /\ Len(keys) = Len(t) - 1
                   /\ keys[Len(keys)] = <<"C", "-", LowerChar(t[Len(t)])>>
            /\ EndsInLoneCaret(c)
                => /\ Len(keys) = Len(t)
                   /\ keys[Len(keys)] = <<"^">>

\* C20 (amended): a caret and the character after it give one key, C- and the
\* lower case of the upper case of that character, and a caret at the end of the
\* text gives the key ^.
C20_CaretGivesControlOfLoweredUpperCase ==
    \A c \in Callers :
        LET t == frame[c].command
            keys == frame[c].keys
        IN  /\ EndsInCaretAndChar(c)
                => /\ Len(keys) = Len(t) - 1
                   /\ keys[Len(keys)] =
                          <<"C", "-">> \o ToLowerCase(ToUpperCase(t[Len(t)]))
            /\ EndsInLoneCaret(c)
                => /\ Len(keys) = Len(t)
                   /\ keys[Len(keys)] = <<"^">>

\* C20 witness: sendRawKeys has sent c and is sending C-z for the text c^Z.
C20_Witness ==
    \E c \in Callers :
        /\ frame[c].op = "raw"
        /\ frame[c].command = <<"c", "^", "Z">>
        /\ frame[c].keys = << <<"c">>, <<"C", "-", "z">> >>
        /\ frame[c].i = 2

\* the executeTmux of the query of caller c returns or throws in this step
QueryReturns(c) ==
    /\ settled # <<>>
    /\ Head(settled).caller = c
    /\ pc[c] = "query"
    /\ ContinueQuery

\* C21 (as claimed): when the executeTmux of a query throws an error that begins
\* with 'Tmux server not available', the query returns no element, and
\* capturePaneContent the placeholder; when it throws one that begins with 'Failed
\* to execute tmux command', the query throws that error.
C21_QueriesHideOnlyUnavailable ==
    [][\A c \in Callers :
          (QueryReturns(c) /\ ExecuteTmux(Head(settled)).threw)
              => LET e == ExecuteTmux(Head(settled)).value
                 IN  /\ StartsWith(e, UnavailablePrefix)
                        => /\ ret'[c].kind # "error"
                           /\ ret'[c].value = IF frame[c].op = "capture-pane"
                                              THEN Placeholder ELSE <<>>
                     /\ StartsWith(e, FailedPrefix)
                        => /\ ret'[c].kind = "error"
                           /\ ret'[c].value = e]_vars

\* the executeCommand of caller c throws in this step
StartFails(c) ==
    /\ pc[c] \in {"start_capture", "start_keys", "start_enter"}
    /\ pc'[c] = "idle"
    /\ ret'[c].op = "start"
    /\ ret'[c].kind = "error"

\* C22 (as claimed): when executeCommand throws, because its capture or one of its
\* send-keys threw, activeCommands holds no record under the identifier that
\* executeCommand made.
C22_FailedStartLeavesNoRecord ==
    [][\A c \in Callers : StartFails(c) => frame[c].id \notin activeCommands']_vars

\* C23 (as claimed): an identifier that cleanupOldCommands deleted from
\* activeCommands is never a key of activeCommands again: no step inserts a record
\* that was made earlier and is no longer in the map.
C23_SweptRecordNeverReappears ==
    [][\A id \in DOMAIN obj :
          id \notin activeCommands => id \notin activeCommands']_vars

\* C24 (as claimed): while an executeCommand is still sending its keys or its
\* Enter, the record it made is not completed.
C24_NoCompletionWhileStartSendsKeys ==
    \A c \in Callers :
        pc[c] \in {"start_keys", "start_enter"}
            => obj[frame[c].id].status # "completed"

\* C25: whenever isProcessing is false the queue is empty; between the steps of
\* the program no command is in the queue without a loop of processQueue that
\* will take it.
C25_QueueEmptyWhenNotProcessing ==
    ~isProcessing => (queue = <<>> /\ loops = {})

\* the queue is at rest after it ran several commands, one of which failed
C25_Witness ==
    /\ ~isProcessing
    /\ queue = <<>>
    /\ Len(resolved) >= 2
    /\ \E i \in 1..Len(resolved) : ~resolved[i].ok
    /\ \E i \in 1..Len(resolved) : resolved[i].ok

====
